---- MODULE Spec2Model ----
(***************************************************************************)
(* Progress-header coordination of llm_agents:                             *)
(*   AgentBase.execute_with_progress   (dags/_base.py)                     *)
(*   build_header_generator, get_header_done (interfaces/bots/_base.py)    *)
(*   SlackBot.flush / send_message / build_user_input                      *)
(*                                     (interfaces/bots/slack.py)          *)
(*                                                                         *)
(* One asyncio event loop runs the coordinator coroutine and the task it   *)
(* creates.  The coordinator only yields the loop at `await asyncio.sleep` *)
(* and `await task`; SlackBot.send_message is a blocking requests.post.    *)
(*                                                                         *)
(* Optional[...] values are sequences: None is <<>>, a value x is <<x>>.   *)
(* Strings built by f-strings are records of their parts; `wrap` is the    *)
(* delimiter put around the header text.                                   *)
(* Time is counted in ticks of 0.02 s.                                     *)
(***************************************************************************)
EXTENDS Integers, Sequences, FiniteSets, TLC

None == <<>>
Some(x) == <<x>>

(* ----------------------------- bounds ---------------------------------- *)
\* polling iterations explored, over all runs
MaxPolls == 3
\* sequential calls of execute_with_progress explored
MaxRuns == 2
\* extra ticks an edit and the sleep after it may take
Jitters == {0, 1}
\* header_switch_speed arguments, in ticks
SwitchSpeeds == {0, 1}
\* message timestamps the chat API may answer with
MsgIds == {"ts1", "ts2"}
\* (task_num, task_total) of the agent that runs
TaskCounters == {<<Some(1), Some(2)>>}

(* ------------------------ bots/_base.py -------------------------------- *)
PROGRESS_TEXT_DEFAULT == "En reflexion"
PROGRESS_EMOJIS == <<"thinking_face", "thought_balloon">>
PROGRESS_NB_DOTS == 3

\* the header string "" of a freshly constructed or flushed bot
EmptyHeader ==
    [kind |-> "empty", emoji |-> None, text |-> None, dots |-> None, tenths |-> None,
     wrap |-> ""]

\* progress_text = task_tag [+ " (num/total)"]
ProgressText(task_tag, task_num, task_total) ==
    IF task_num # None /\ task_total # None
    THEN [tag |-> task_tag, counter |-> <<task_num[1], task_total[1]>>]
    ELSE [tag |-> task_tag, counter |-> <<>>]

\* generator object right after build_header_generator(...): no code has run yet
build_header_generator(task_tag, task_num, task_total, emojis, nb_dots) ==
    [started |-> FALSE, emoji_index |-> 0, dots |-> 1,
     progress_text |-> ProgressText(task_tag, task_num, task_total),
     emojis |-> emojis, nb_dots |-> nb_dots]

\* GenAdvance whose dots start over whenever the emojis do
GenAdvance_Coupled(g) ==
    [g EXCEPT !.emoji_index = (g.emoji_index + 1) % Len(g.emojis),
              !.dots = IF g.nb_dots # None
                       THEN (IF g.dots < g.nb_dots[1]
                                /\ (g.emoji_index + 1) % Len(g.emojis) # 0
                             THEN g.dots + 1 ELSE 1)
                       ELSE g.dots]

\* GenAdvance with the emoji cursor left where it is
GenAdvance_EmojiStuck(g) ==
    [g EXCEPT !.dots = IF g.nb_dots # None
                       THEN (IF g.dots < g.nb_dots[1] THEN g.dots + 1 ELSE 1)
                       ELSE g.dots]

\* the code between two yields: advance both counters
GenAdvance(g) ==
    [g EXCEPT !.emoji_index = (g.emoji_index + 1) % Len(g.emojis),
              !.dots = IF g.nb_dots # None
                       THEN (IF g.dots < g.nb_dots[1] THEN g.dots + 1 ELSE 1)
                       ELSE g.dots]

\* generator state after next(g): the first next() runs to the first yield
GenNext(g) ==
    IF g.started THEN GenAdvance(g) ELSE [g EXCEPT !.started = TRUE]

\* the string yielded at the current yield point
GenYield(g) ==
    [kind |-> "progress",
     emoji |-> Some(g.emojis[g.emoji_index + 1]),
     text |-> Some(g.progress_text),
     dots |-> IF g.nb_dots # None THEN Some(g.dots) ELSE None,
     tenths |-> None,
     wrap |-> "backtick"]

\* the exception next(g) raises at emojis[emoji_index], or "none"
GenError(g) == IF g.emoji_index >= Len(g.emojis) THEN "IndexError" ELSE "none"

\* FormatTenths that cuts the digits off instead of rounding
FormatTenths_Truncate(t) == (2 * t) \div 10

\* f"{x:.1f}" of x = t ticks of 0.02 s, in tenths of a second
FormatTenths(t) == (2 * t + 5) \div 10

get_header_done(time_elapsed) ==
    [kind |-> "done", emoji |-> None, text |-> None, dots |-> None,
     tenths |-> IF time_elapsed > 0 THEN Some(FormatTenths(time_elapsed)) ELSE None,
     wrap |-> "backtick"]

(* --------------------------- bots/slack.py ----------------------------- *)
\* SlackBot.__init__
SlackBotInit ==
    [current_header |-> EmptyHeader, current_body |-> "",
     current_bot_message_id |-> None,
     current_bot_thread_id |-> None,
     current_bot_channel_id |-> None]

current_message(b) == [header |-> b.current_header, body |-> b.current_body]

\* flush that clears the header and keeps the body
flush_KeepBody(b) == [b EXCEPT !.current_header = EmptyHeader]

flush(b) == [b EXCEPT !.current_header = EmptyHeader, !.current_body = ""]

\* the request send_message builds
Payload(b, channel_id, thread_id, message_id) ==
    [url |-> IF message_id = None THEN "chat.postMessage" ELSE "chat.update",
     channel |-> channel_id,
     thread_ts |-> thread_id,
     ts |-> IF message_id # None /\ message_id # Some("") THEN message_id ELSE None,
     text |-> current_message(b)]

\* ts of a message chat.postMessage creates: not the ts of the message the bot
\* holds, which exists already
FreshTs(b) == {Some(m) : m \in MsgIds} \ {b.current_bot_message_id}

\* answers of the chat API to a request: non-success, success without "ts",
\* success.  chat.update answers with the ts of the message it edited,
\* chat.postMessage with the ts of the message it created.
Responses(b, payload) ==
    {[status_ok |-> FALSE, ts |-> None], [status_ok |-> TRUE, ts |-> None]} \cup
    {[status_ok |-> TRUE, ts |-> t] :
        t \in IF payload.url = "chat.update" /\ payload.ts # None
              THEN {payload.ts}
              ELSE FreshTs(b)}

\* SendError without the check of the "ts" key
SendError_NoTsCheck(resp) ==
    IF ~resp.status_ok THEN "SlackMessageSendError" ELSE "ok"

\* the exception send_message raises on this response, or "ok"
SendError(resp) ==
    IF ~resp.status_ok THEN "SlackMessageSendError"
    ELSE IF resp.ts = None THEN "SlackApiError"
    ELSE "ok"

\* bot after send_message got this response
SendEffect(b, channel_id, thread_id, resp) ==
    IF SendError(resp) = "ok"
    THEN [b EXCEPT !.current_bot_message_id = resp.ts,
                   !.current_bot_thread_id = thread_id,
                   !.current_bot_channel_id = channel_id]
    ELSE b

(* ------------------------------ state ---------------------------------- *)
VARIABLES
    pc,                  \* position of the coordinator coroutine
    bot,                 \* the SlackBot shared by every flow
    processing_time,     \* agent_io.processing_time
    now,                 \* time.monotonic()
    message_id, thread_id, channel_id,   \* locals of execute_with_progress
    header_generator, bot_message_id, start_time, header_switch_speed,
    task,                \* the asyncio task of the current run
    orphans,             \* pending tasks of earlier runs nobody awaits
    outcome,             \* what the caller of the last run received
    runs, polls,         \* runs started, loop iterations of all runs
    calls,               \* history: send_message calls of this run
    start_id,            \* history: the bot's message id as this run found it
    id_moved,            \* history: an edit of this run was made while the bot's
                         \*   message id was not the one the first send returned
    loop_ticks,          \* history: ticks elapsed since line 148 of this run
    exited_ticks,        \* history: ticks spent in loops that have exited
    work_due,            \* timed runs: when the operation the task awaits ends
    paid,                \* timed runs: ticks spent at a position of the coordinator
    gen_args             \* header runs: arguments the generator was built with

locals == <<message_id, thread_id, channel_id, header_generator, bot_message_id,
            start_time, header_switch_speed>>
hist == <<calls, start_id, id_moved, loop_ticks, exited_ticks>>
timed == <<work_due, paid>>
aside == <<timed, gen_args>>
vars == <<pc, bot, processing_time, now, locals, task, orphans, outcome,
          runs, polls, hist, aside>>

\* the locals while no call of execute_with_progress is active
NoFrame(mid, th, ch, gen, bmid, st, speed) ==
    /\ mid = None /\ th = None /\ ch = None
    /\ gen = build_header_generator(PROGRESS_TEXT_DEFAULT, None, None,
                                    PROGRESS_EMOJIS, Some(PROGRESS_NB_DOTS))
    /\ bmid = None /\ st = 0 /\ speed = 0
NoTask == [state |-> "none", result |-> "none"]
NoWait == [pc |-> "idle", calls |-> 0, ticks |-> 0]
\* arguments of the generator a run builds when no counters are given
NoArgs == [task_tag |-> PROGRESS_TEXT_DEFAULT, task_num |-> None, task_total |-> None,
           emojis |-> PROGRESS_EMOJIS, nb_dots |-> Some(PROGRESS_NB_DOTS)]
NoOutcome == [kind |-> "none", exc |-> "none", value |-> None, task_done |-> FALSE]

Init ==
    /\ pc = "idle"
    /\ bot = SlackBotInit
    /\ processing_time = 0
    /\ now = 0
    /\ NoFrame(message_id, thread_id, channel_id, header_generator,
               bot_message_id, start_time, header_switch_speed)
    /\ task = NoTask
    /\ orphans = 0
    /\ outcome = NoOutcome
    /\ runs = 0 /\ polls = 0
    /\ calls = <<>> /\ loop_ticks = 0 /\ exited_ticks = 0
    /\ start_id = None
    /\ id_moved = FALSE
    /\ work_due = 0
    /\ paid = NoWait
    /\ gen_args = NoArgs


(* --------------------------- dags/_base.py ----------------------------- *)
\* TaskDone that takes a task that ended raising for a task that has not ended
TaskDone_OkOnly(t) == t.state = "done" /\ t.result # "raise"

\* TaskDone that takes a task that has begun for a task that has ended
TaskDone_Started(t) == t.state \in {"running", "done"}

\* task.done()
TaskDone(t) == t.state = "done"

\* FirstMessageId that always asks for a new message
FirstMessageId_AlwaysNew(b) == None

\* message_id = self.bot.current_bot_message_id: the id the first send is made with
FirstMessageId(b) == b.current_bot_message_id

\* EditMessageId that reads the bot's current id
EditMessageId_Current(local_id, b) == b.current_bot_message_id

\* the id passed to every send after the first: the local bot_message_id
EditMessageId(local_id, b) == local_id

\* Accumulate that overwrites the total
Accumulate_Overwrite(total, time_elapsed) == time_elapsed

\* Accumulate when line 157 is left out
Accumulate_Dropped(total, time_elapsed) == total

\* self.agent_io.processing_time += time_elapsed
Accumulate(total, time_elapsed) == total + time_elapsed

\* Suspended when the end of a run cancels what it had scheduled
Suspended_InRunOnly(p) == p = "sleep"

\* Suspended for a unit of work that runs in a thread of its own
Suspended_Preemptive(p) == TRUE

\* positions at which the coordinator has yielded the event loop, so that other
\* flows run: inside `await asyncio.sleep`, and after the coroutine has ended
Suspended(p) == p \in {"sleep", "idle"}

\* SleepTicks of a sleep that returns without waiting for the delay
SleepTicks_NoDelay(delay, jitter) == jitter

\* asyncio.sleep(delay) lasts at least max(delay, 0)
SleepTicks(delay, jitter) == (IF delay > 0 THEN delay ELSE 0) + jitter

Pending(t) == t.state \in {"scheduled", "running"}

\* history record of one send_message call of the coordinator: the request, the
\* answer, and the state of the task at the call
Call(b, ch, th, mid, resp) ==
    [payload |-> Payload(b, ch, th, mid), resp |-> resp, task_state |-> task.state]

\* an exception leaves execute_with_progress: its frame is gone
Raise(exc) ==
    /\ pc' = "idle"
    /\ NoFrame(message_id', thread_id', channel_id', header_generator',
               bot_message_id', start_time', header_switch_speed')
    /\ outcome' = [kind |-> "raised", exc |-> exc, value |-> None,
                   task_done |-> task.state = "done"]

\* lines 135-142: read the bot's ids, build the generator, create the task.
\* send_message takes `channel_id: str`: a run is started on a bot that has a
\* channel, that is after build_user_input.
StartRun(speed, counters) ==
    /\ pc = "idle"
    /\ runs < MaxRuns
    /\ bot.current_bot_channel_id # None
    /\ message_id' = FirstMessageId(bot)
    /\ thread_id' = bot.current_bot_thread_id
    /\ channel_id' = bot.current_bot_channel_id
    /\ header_generator' = build_header_generator(PROGRESS_TEXT_DEFAULT,
                               counters[1], counters[2],
                               PROGRESS_EMOJIS, Some(PROGRESS_NB_DOTS))
    /\ header_switch_speed' = speed
    /\ task' = [state |-> "scheduled", result |-> "none"]
    /\ orphans' = IF Pending(task) THEN orphans + 1 ELSE orphans
    /\ outcome' = NoOutcome
    /\ runs' = runs + 1
    /\ calls' = <<>>
    /\ start_id' = bot.current_bot_message_id
    /\ id_moved' = FALSE
    /\ loop_ticks' = 0
    /\ pc' = "first_send"
    /\ UNCHANGED <<aside, bot, processing_time, now, bot_message_id, start_time, polls,
                   exited_ticks>>

\* lines 144-148: flush, stage the first header, send, read the clock
FirstSend(resp) ==
    /\ pc = "first_send"
    /\ LET g1 == GenNext(header_generator)
           b1 == [flush(bot) EXCEPT !.current_header = GenYield(g1)]
       IN /\ resp \in Responses(b1, Payload(b1, channel_id, thread_id, message_id))
          /\ calls' = Append(calls, Call(b1, channel_id, thread_id, message_id, resp))
          /\ bot' = SendEffect(b1, channel_id, thread_id, resp)
          /\ IF SendError(resp) = "ok"
             THEN /\ header_generator' = g1
                  /\ bot_message_id' = resp.ts
                  /\ start_time' = now
                  /\ pc' = "while"
                  /\ UNCHANGED <<outcome, message_id, thread_id, channel_id,
                                 header_switch_speed>>
             ELSE Raise(SendError(resp))
    /\ UNCHANGED <<aside, processing_time, now, task, orphans, runs, polls,
                   start_id, id_moved, loop_ticks, exited_ticks>>

\* line 149: while not task.done()
WhileCheck ==
    /\ pc = "while"
    /\ pc' = IF ~TaskDone(task) THEN "edit" ELSE "loop_exit"
    /\ UNCHANGED <<aside, bot, processing_time, now, locals, task, orphans, outcome,
                   runs, polls, hist>>

\* lines 150-151: stage the next header and edit the message
Edit(resp) ==
    /\ pc = "edit"
    /\ polls < MaxPolls
    /\ polls' = polls + 1
    /\ LET g1 == GenNext(header_generator)
           b1 == [bot EXCEPT !.current_header = GenYield(g1)]
           mid == EditMessageId(bot_message_id, bot)
       IN /\ resp \in Responses(b1, Payload(b1, channel_id, thread_id, mid))
          /\ calls' = Append(calls, Call(b1, channel_id, thread_id, mid, resp))
          /\ bot' = SendEffect(b1, channel_id, thread_id, resp)
          /\ IF SendError(resp) = "ok"
             THEN /\ header_generator' = g1
                  /\ pc' = "sleep"
                  /\ UNCHANGED <<outcome, message_id, thread_id, channel_id,
                                 bot_message_id, start_time, header_switch_speed>>
             ELSE Raise(SendError(resp))
    /\ id_moved' = (id_moved \/ bot.current_bot_message_id # bot_message_id)
    /\ UNCHANGED <<aside, processing_time, now, task, orphans, runs, start_id,
                   loop_ticks, exited_ticks>>

\* line 152: await asyncio.sleep(header_switch_speed) returns.  The task was
\* queued on the loop before the coordinator yielded, so it has run its first
\* step by then.  The clock is read at lines 148 and 155 only, and every edit
\* between them is followed by this sleep: the time the blocking edit took is
\* counted in the jitter of the sleep.
Wake(jitter) ==
    /\ pc = "sleep"
    /\ task.state # "scheduled"
    /\ now' = now + SleepTicks(header_switch_speed, jitter)
    /\ loop_ticks' = loop_ticks + SleepTicks(header_switch_speed, jitter)
    /\ pc' = "if_done"
    /\ UNCHANGED <<aside, bot, processing_time, locals, task, orphans, outcome,
                   runs, polls, calls, start_id, id_moved, exited_ticks>>

\* lines 153-154: if task.done(): break
IfDone ==
    /\ pc = "if_done"
    /\ pc' = IF TaskDone(task) THEN "loop_exit" ELSE "while"
    /\ UNCHANGED <<aside, bot, processing_time, now, locals, task, orphans, outcome,
                   runs, polls, hist>>

\* lines 155-160: account the elapsed time, stage the terminal header
LoopExit ==
    /\ pc = "loop_exit"
    /\ LET time_elapsed == now - start_time
           total == Accumulate(processing_time, time_elapsed)
       IN /\ processing_time' = total
          /\ bot' = [bot EXCEPT !.current_header = get_header_done(total)]
    /\ exited_ticks' = exited_ticks + loop_ticks
    /\ pc' = "terminal_send"
    /\ UNCHANGED <<aside, now, locals, task, orphans, outcome, runs, polls, calls,
                   start_id, id_moved, loop_ticks>>

\* line 161: the terminal edit
TerminalSend(resp) ==
    /\ pc = "terminal_send"
    /\ LET mid == EditMessageId(bot_message_id, bot)
       IN /\ resp \in Responses(bot, Payload(bot, channel_id, thread_id, mid))
          /\ calls' = Append(calls, Call(bot, channel_id, thread_id, mid, resp))
          /\ bot' = SendEffect(bot, channel_id, thread_id, resp)
    /\ IF SendError(resp) = "ok"
       THEN pc' = "await_task" /\ UNCHANGED <<outcome, locals>>
       ELSE Raise(SendError(resp))
    /\ id_moved' = (id_moved \/ bot.current_bot_message_id # bot_message_id)
    /\ UNCHANGED <<aside, processing_time, now, task, orphans, runs, polls,
                   start_id, loop_ticks, exited_ticks>>

\* processing_time of an AgentIO the unit of work builds itself (default 0)
OtherProcessingTime == 0

\* lines 163-165: task_output = await task; return task_output
AwaitTask ==
    /\ pc = "await_task"
    /\ task.state = "done"
    /\ pc' = "idle"
    /\ NoFrame(message_id', thread_id', channel_id', header_generator',
               bot_message_id', start_time', header_switch_speed')
    /\ outcome' =
         IF task.result = "raise"
         THEN [kind |-> "raised", exc |-> "WorkError", value |-> None, task_done |-> TRUE]
         ELSE [kind |-> "returned", exc |-> "none",
               value |-> Some([object |-> task.result,
                               processing_time |->
                                  IF task.result = "own" THEN processing_time
                                  ELSE OtherProcessingTime]),
               task_done |-> TRUE]
    /\ UNCHANGED <<aside, bot, processing_time, now, task, orphans, runs, polls, hist>>

(* ------------------- the unit of work: self.execute() ------------------ *)
WorkHeader ==
    [kind |-> "work", emoji |-> None, text |-> None, dots |-> None, tenths |-> None,
     wrap |-> ""]

WorkEffects == {"none", "post"}
WorkEnds == {"suspend", "own", "other", "raise"}

\* what one step of a unit of work does to the bot it shares: nothing, or it
\* stages a header and a body of its own and posts them as a new message
WorkEffect(b, effect, ts) ==
    CASE effect = "none" -> b
      [] effect = "post" ->
            SendEffect([b EXCEPT !.current_header = WorkHeader,
                                 !.current_body = "answer"],
                       b.current_bot_channel_id, b.current_bot_thread_id,
                       [status_ok |-> TRUE, ts |-> Some(ts)])

\* one step of the task, up to its next await or its end
WorkRun(effect, ts, end) ==
    /\ Suspended(pc)
    /\ Pending(task)
    /\ Some(ts) \in FreshTs(bot)
    /\ bot' = WorkEffect(bot, effect, ts)
    /\ task' = IF end = "suspend"
               THEN [state |-> "running", result |-> "none"]
               ELSE [state |-> "done", result |-> end]
    /\ UNCHANGED <<aside, pc, processing_time, now, locals, orphans, outcome, runs, polls, hist>>

\* one step of a task whose run has ended without awaiting it
OrphanRun(effect, ts, ends) ==
    /\ Suspended(pc)
    /\ orphans > 0
    /\ Some(ts) \in FreshTs(bot)
    /\ bot' = WorkEffect(bot, effect, ts)
    /\ orphans' = IF ends THEN orphans - 1 ELSE orphans
    /\ UNCHANGED <<aside, pc, processing_time, now, locals, task, outcome, runs, polls, hist>>

(* ------------------------------ callers -------------------------------- *)
Channels == {"C1"}
Threads == {"T1"}

\* SlackBot.build_user_input: a new user event resets the bot's message id
BuildUserInput(ch, th) ==
    /\ pc = "idle"
    /\ bot' = [bot EXCEPT !.current_bot_channel_id = Some(ch),
                          !.current_bot_thread_id = Some(th),
                          !.current_bot_message_id = None]
    /\ UNCHANGED <<aside, pc, processing_time, now, locals, task, orphans, outcome,
                   runs, polls, hist>>


\* every answer the chat API can give
AllResponses ==
    {[status_ok |-> FALSE, ts |-> None], [status_ok |-> TRUE, ts |-> None]} \cup
    {[status_ok |-> TRUE, ts |-> Some(m)] : m \in MsgIds}

Next ==
    \/ \E ch \in Channels, th \in Threads : BuildUserInput(ch, th)
    \/ \E speed \in SwitchSpeeds, c \in TaskCounters : StartRun(speed, c)
    \/ \E resp \in AllResponses : FirstSend(resp)
    \/ WhileCheck
    \/ \E resp \in AllResponses : Edit(resp)
    \/ \E j \in Jitters : Wake(j)
    \/ IfDone
    \/ LoopExit
    \/ \E resp \in AllResponses : TerminalSend(resp)
    \/ AwaitTask
    \/ \E e \in WorkEffects, ts \in MsgIds, end \in WorkEnds : WorkRun(e, ts, end)
    \/ \E e \in WorkEffects, ts \in MsgIds, ends \in BOOLEAN : OrphanRun(e, ts, ends)

Spec == Init /\ [][Next]_vars

\* the steps of the coroutine execute_with_progress itself
CoordinatorStep ==
    \/ \E resp \in AllResponses : FirstSend(resp)
    \/ WhileCheck
    \/ \E resp \in AllResponses : Edit(resp)
    \/ \E j \in Jitters : Wake(j)
    \/ IfDone
    \/ LoopExit
    \/ \E resp \in AllResponses : TerminalSend(resp)
    \/ AwaitTask

\* the event loop resumes a coroutine that can continue: synchronous code runs
\* to its next await, requests.post returns (timeout=30), the timer of
\* asyncio.sleep fires, and awaiting a task that is done returns.  Nothing
\* makes the unit of work end, or a caller start a run.
\* The fair runs get a budget of FairPolls polling iterations.
FairPolls == 2

FairInit ==
    /\ pc = "idle"
    /\ bot = SlackBotInit
    /\ processing_time = 0
    /\ now = 0
    /\ NoFrame(message_id, thread_id, channel_id, header_generator,
               bot_message_id, start_time, header_switch_speed)
    /\ task = NoTask
    /\ orphans = 0
    /\ outcome = NoOutcome
    /\ runs = 0 /\ polls = MaxPolls - FairPolls
    /\ calls = <<>> /\ loop_ticks = 0 /\ exited_ticks = 0
    /\ start_id = None
    /\ id_moved = FALSE
    /\ work_due = 0
    /\ paid = NoWait
    /\ gen_args = NoArgs

FairSpec == FairInit /\ [][Next]_vars /\ WF_vars(CoordinatorStep)


(* ------------------------ runs with explicit time ---------------------- *)
\* One run whose unit of work awaits a single operation that lasts three
\* times the switch interval.  Time passes while requests.post blocks and
\* while the coordinator sleeps; the run is called at tick 0.

\* ticks a blocking requests.post may take
SendTicks == {0, 1}
\* header_switch_speed arguments of the timed runs, in ticks
TimedSpeeds == {1, 2}
\* edits a timed run may make
TimedPolls == 5

MaxOf(S) == CHOOSE x \in S : \A y \in S : y <= x

\* ticks the coordinator has spent at its present position
Waited == IF paid.pc = pc /\ paid.calls = Len(calls) THEN paid.ticks ELSE 0

\* the unit of work: `await` of an operation lasting 3 x header_switch_speed
WorkDuration(speed) == 3 * speed

TimedInit ==
    /\ pc = "idle"
    /\ bot = SlackBotInit
    /\ processing_time = 0
    /\ now = 0
    /\ NoFrame(message_id, thread_id, channel_id, header_generator,
               bot_message_id, start_time, header_switch_speed)
    /\ task = NoTask
    /\ orphans = 0
    /\ outcome = NoOutcome
    /\ runs = 0 /\ polls = MaxPolls - TimedPolls
    /\ calls = <<>> /\ loop_ticks = 0 /\ exited_ticks = 0
    /\ start_id = None
    /\ id_moved = FALSE
    /\ work_due = 0
    /\ paid = NoWait
    /\ gen_args = NoArgs

\* one tick passes: inside a blocking requests.post (lines 146, 151, 161), or
\* inside asyncio.sleep (line 152) once every callback that is ready has run
Pass ==
    /\ \/ /\ pc \in {"first_send", "edit", "terminal_send"}
          /\ Waited < MaxOf(SendTicks)
       \/ /\ pc = "sleep"
          /\ Waited < SleepTicks(header_switch_speed, MaxOf(Jitters))
          /\ task.state # "scheduled"
          /\ ~(task.state = "running" /\ now >= work_due)
    /\ now' = now + 1
    /\ loop_ticks' = IF pc \in {"edit", "sleep"} THEN loop_ticks + 1 ELSE loop_ticks
    /\ paid' = [pc |-> pc, calls |-> Len(calls), ticks |-> Waited + 1]
    /\ UNCHANGED <<pc, bot, processing_time, locals, task, orphans, outcome,
                   runs, polls, calls, start_id, id_moved, exited_ticks, work_due,
                   gen_args>>

\* line 152: the timer of asyncio.sleep fires, at the delay or later; a
\* continuation of the task that was due earlier has run before it
TimedWake ==
    /\ pc = "sleep"
    /\ task.state # "scheduled"
    /\ \E j \in Jitters : Waited = SleepTicks(header_switch_speed, j)
    /\ ~(task.state = "running" /\ now > work_due)
    /\ pc' = "if_done"
    /\ UNCHANGED <<bot, processing_time, now, locals, task, orphans, outcome,
                   runs, polls, hist, aside>>

\* the task's first step starts the operation it awaits; its second step, once
\* the operation has ended, returns the agent_io of the run
TimedWorkRun(effect, ts) ==
    /\ Suspended(pc) /\ pc # "idle"
    /\ Pending(task)
    /\ Some(ts) \in FreshTs(bot)
    /\ bot' = WorkEffect(bot, effect, ts)
    /\ IF task.state = "scheduled"
       THEN /\ task' = [state |-> "running", result |-> "none"]
            /\ work_due' = now + WorkDuration(header_switch_speed)
       ELSE /\ now >= work_due
            /\ task' = [state |-> "done", result |-> "own"]
            /\ UNCHANGED work_due
    /\ UNCHANGED <<pc, processing_time, now, locals, orphans, outcome, runs,
                   polls, hist, paid, gen_args>>

TimedNext ==
    \/ \E ch \in Channels, th \in Threads : BuildUserInput(ch, th)
    \/ \E speed \in TimedSpeeds, c \in TaskCounters : runs = 0 /\ StartRun(speed, c)
    \/ \E resp \in AllResponses : FirstSend(resp)
    \/ WhileCheck
    \/ \E resp \in AllResponses : Edit(resp)
    \/ Pass
    \/ TimedWake
    \/ IfDone
    \/ LoopExit
    \/ \E resp \in AllResponses : TerminalSend(resp)
    \/ AwaitTask
    \/ \E e \in WorkEffects, ts \in MsgIds : TimedWorkRun(e, ts)

TimedSpec == TimedInit /\ [][TimedNext]_vars


(* ------------------ a second coordinator on the same bot --------------- *)
\* The timed run, with a second call of execute_with_progress in progress on
\* the same SlackBot.  Of the second call only what it does to the bot is
\* kept: each of its synchronous segments stages a header of its own and
\* sends it, the first segment after flushing (lines 144-146), the later ones
\* without (lines 150-151 and 158-161).

\* generator of the second call: another agent, with other counters
OtherGenerator ==
    build_header_generator(PROGRESS_TEXT_DEFAULT, Some(2), Some(2),
                           PROGRESS_EMOJIS, Some(PROGRESS_NB_DOTS))

\* headers the second call stages: its first two progress headers, its terminal one
OtherHeaders ==
    {GenYield(GenNext(OtherGenerator)),
     GenYield(GenNext(GenNext(OtherGenerator))),
     get_header_done(1)}

\* one synchronous segment of the second call, run while this one has yielded
OtherRun(first, h, ts) ==
    /\ Suspended(pc) /\ pc # "idle"
    /\ bot' = SendEffect([(IF first THEN flush(bot) ELSE bot) EXCEPT !.current_header = h],
                         bot.current_bot_channel_id, bot.current_bot_thread_id,
                         [status_ok |-> TRUE, ts |-> Some(ts)])
    /\ bot' # bot
    /\ UNCHANGED <<pc, processing_time, now, locals, task, orphans, outcome, runs,
                   polls, hist, aside>>

SharedNext ==
    \/ TimedNext
    \/ \E first \in BOOLEAN, h \in OtherHeaders, ts \in MsgIds : OtherRun(first, h, ts)

SharedSpec == TimedInit /\ [][SharedNext]_vars


(* --------------------- runs of the header functions -------------------- *)
\* A generator built from any arguments is pulled, and the terminal header of
\* any processing time is rendered, the way execute_with_progress does both.

\* pulls made on one generator
MaxPulls == 7
EmojiTuples == {<<>>, <<"e1">>, <<"e1", "e2">>, <<"e1", "e2", "e3">>}
NbDots == {None, Some(1), Some(2), Some(3)}
TaskNums == {None, Some(1)}
TaskTotals == {None, Some(2)}
\* processing times in ticks: -1 s, 0, 0.02 s, 0.06 s, 1 s, 12.34 s, 12.38 s
ElapsedInputs == {-50, 0, 1, 3, 50, 617, 619}

GenArgs ==
    [task_tag : {PROGRESS_TEXT_DEFAULT}, task_num : TaskNums, task_total : TaskTotals,
     emojis : EmojiTuples, nb_dots : NbDots]

HeaderInit ==
    /\ gen_args \in GenArgs
    /\ header_generator = build_header_generator(gen_args.task_tag, gen_args.task_num,
                              gen_args.task_total, gen_args.emojis, gen_args.nb_dots)
    /\ processing_time \in ElapsedInputs
    /\ pc = "idle"
    /\ bot = SlackBotInit
    /\ now = 0
    /\ message_id = None /\ thread_id = None /\ channel_id = None
    /\ bot_message_id = None /\ start_time = 0 /\ header_switch_speed = 0
    /\ task = NoTask
    /\ orphans = 0
    /\ outcome = NoOutcome
    /\ runs = 0 /\ polls = 0
    /\ calls = <<>> /\ loop_ticks = 0 /\ exited_ticks = 0
    /\ start_id = None
    /\ id_moved = FALSE
    /\ work_due = 0
    /\ paid = NoWait

\* self.bot.current_header = next(header_generator)
Pull ==
    /\ polls < MaxPulls
    /\ outcome.kind = "none"
    /\ polls' = polls + 1
    /\ LET g1 == GenNext(header_generator)
       IN IF GenError(g1) = "none"
          THEN /\ header_generator' = g1
               /\ bot' = [bot EXCEPT !.current_header = GenYield(g1)]
               /\ UNCHANGED outcome
          ELSE /\ outcome' = [kind |-> "raised", exc |-> GenError(g1), value |-> None,
                              task_done |-> FALSE]
               /\ UNCHANGED <<header_generator, bot>>
    /\ UNCHANGED <<pc, processing_time, now, message_id, thread_id, channel_id,
                   bot_message_id, start_time, header_switch_speed, task, orphans,
                   runs, hist, aside>>

\* self.bot.current_header = get_header_done(time_elapsed=processing_time)
RenderDone ==
    /\ bot.current_header.kind # "done"
    /\ bot' = [bot EXCEPT !.current_header = get_header_done(processing_time)]
    /\ UNCHANGED <<pc, processing_time, now, locals, task, orphans, outcome,
                   runs, polls, hist, aside>>

HeaderNext ==
    \/ Pull
    \/ RenderDone

HeaderSpec == HeaderInit /\ [][HeaderNext]_vars


(* ------------------------------ properties ----------------------------- *)
IsTerminal(c) == c.payload.text.header.kind = "done"
IsProgress(c) == c.payload.text.header.kind = "progress"
Failed(resp) == ~resp.status_ok \/ resp.ts = None
TerminalCalls == {i \in 1..Len(calls) : IsTerminal(calls[i])}
InRun == pc # "idle"
RunEnded == pc = "idle" /\ outcome.kind # "none"

\* C1: at most one terminal ('done') edit is issued per run, it is issued only
\* when the task is done and it is the last call of the run; no progress edit
\* is issued once the task is done; a run that ends with its task done has
\* issued exactly one terminal edit.
C1_TerminalEditOnceAndLast ==
    /\ Cardinality(TerminalCalls) <= 1
    /\ \A i \in TerminalCalls : i = Len(calls) /\ calls[i].task_state = "done"
    /\ \A i \in 1..Len(calls) :
          IsProgress(calls[i]) => calls[i].task_state # "done"
    /\ pc \in {"terminal_send", "await_task"} => task.state = "done"
    /\ (RunEnded /\ outcome.task_done) => Cardinality(TerminalCalls) = 1

\* a run has returned after two polling iterations and its terminal edit
C1_Witness ==
    /\ RunEnded /\ outcome.kind = "returned"
    /\ Len(calls) = 4 /\ IsTerminal(calls[4])

\* the k-th header (k = 0, 1, ...) of the sequencer execute_with_progress builds
HeaderAt(k, text) ==
    [kind |-> "progress",
     emoji |-> Some(PROGRESS_EMOJIS[(k % Len(PROGRESS_EMOJIS)) + 1]),
     text |-> text,
     dots |-> Some((k % PROGRESS_NB_DOTS) + 1),
     tenths |-> None,
     wrap |-> "backtick"]

\* C2: the i-th call of a run that is not the terminal edit carries the i-th
\* value of the sequencer (the first send the 1st, the i-th edit the (i+1)-th),
\* these calls are the first calls of the run, and the sequencer stands at the
\* header sent last: every header pulled is sent once, in pull order.
C2_HeadersInPullOrder ==
    /\ \A i \in 1..Len(calls) :
          ~IsTerminal(calls[i]) =>
              /\ calls[i].payload.text.header =
                     HeaderAt(i - 1, calls[1].payload.text.header.text)
              /\ \A j \in 1..i : ~IsTerminal(calls[j])
    /\ (InRun /\ Len(calls) > 0 /\ ~IsTerminal(calls[Len(calls)])) =>
          /\ header_generator.started
          /\ GenYield(header_generator) = calls[Len(calls)].payload.text.header
    /\ (InRun /\ Len(calls) = 0) => ~header_generator.started

\* a run has made its first send and three edits: the dots have wrapped to one
C2_Witness ==
    /\ Len(calls) >= 4
    /\ IsProgress(calls[4])
    /\ calls[4].payload.text.header.dots = Some(1)
    /\ calls[3].payload.text.header.dots = Some(3)

\* C3 as stated: the first call of every run creates a new message.
C3_Original_FirstCallCreates ==
    Len(calls) >= 1 =>
        /\ calls[1].payload.url = "chat.postMessage"
        /\ calls[1].payload.ts = None

\* C3 amended: the first call of a run is made with the message id the bot held
\* when the run started; it creates a message exactly when that id was None and
\* edits the bot's current message otherwise; no later call of the run creates
\* a message; a run that returned made at least 2 calls.
C3_FirstCallUsesCurrentId ==
    /\ Len(calls) >= 1 =>
          /\ calls[1].payload.ts = start_id
          /\ (calls[1].payload.url = "chat.postMessage") <=> (start_id = None)
    /\ \A i \in 2..Len(calls) : calls[i].payload.url = "chat.update"
    /\ (RunEnded /\ outcome.kind = "returned") => Len(calls) >= 2

\* the second run started on a bot an earlier run left a message id on, and its
\* first call edited that message
C3_Witness ==
    /\ runs = 2
    /\ Len(calls) >= 1
    /\ calls[1].payload.url = "chat.update"
    /\ start_id # None

\* C4: every call of a run after the first is made with the ts the first send
\* returned, and on the channel and thread of the first send.
C4_EditsUseFirstSendId ==
    \A i \in 2..Len(calls) :
        /\ calls[i].payload.ts = calls[1].resp.ts
        /\ calls[i].payload.url = "chat.update"
        /\ calls[i].payload.channel = calls[1].payload.channel
        /\ calls[i].payload.thread_ts = calls[1].payload.thread_ts

\* an edit was made while another flow had moved the bot's current message id
C4_Witness ==
    /\ id_moved
    /\ Len(calls) >= 3
    /\ IsTerminal(calls[Len(calls)])

\* C5: the accumulated processing time is the sum of the durations of the loops
\* that have exited, and the terminal header of a run shows that sum.
C5_TerminalShowsAccumulated ==
    /\ processing_time = exited_ticks
    /\ \A i \in TerminalCalls :
          calls[i].payload.text.header.tenths =
              IF exited_ticks > 0 THEN Some(FormatTenths(exited_ticks)) ELSE None

\* the second run's terminal header shows more than that run's own duration
C5_Witness ==
    /\ runs = 2
    /\ TerminalCalls # {}
    /\ loop_ticks > 0 /\ exited_ticks > loop_ticks
    /\ FormatTenths(exited_ticks) # FormatTenths(loop_ticks)

\* C6 as stated: the value a run returns carries the accumulated processing time.
C6_Original_ReturnsAccumulatedTime ==
    outcome.kind = "returned" =>
        outcome.value[1].processing_time = processing_time

\* C7 as stated: when the task of a run raised, the run ends with that error.
C7_Original_WorkErrorReachesCaller ==
    (RunEnded /\ outcome.task_done /\ task.result = "raise") =>
        (outcome.kind = "raised" /\ outcome.exc = "WorkError")

\* C8 as stated: no terminal 'done' edit in a run whose task raised.
C8_Original_NoDoneEditOnFailure ==
    (task.state = "done" /\ task.result = "raise") => TerminalCalls = {}

\* C9: a call whose answer is a failure (non-success status or no ts) is the
\* last call of its run, the run has ended, and it ended raising the error of
\* that call.
C9_TransportFailureAborts ==
    \A i \in 1..Len(calls) :
        Failed(calls[i].resp) =>
            /\ i = Len(calls)
            /\ pc = "idle"
            /\ outcome.kind = "raised"
            /\ outcome.exc = (IF ~calls[i].resp.status_ok
                              THEN "SlackMessageSendError" ELSE "SlackApiError")

\* an intermediate edit was answered without a ts
C9_Witness ==
    /\ Len(calls) >= 2
    /\ IsProgress(calls[Len(calls)])
    /\ calls[Len(calls)].resp = [status_ok |-> TRUE, ts |-> None]
    /\ outcome.exc = "SlackApiError"

C11_Original_WorkNeverGated ==
    (InRun /\ Pending(task)) =>
        ENABLED (\E e \in WorkEffects, ts \in MsgIds, end \in WorkEnds :
                    WorkRun(e, ts, end))

\* the state of the run's state machine the coordinator is in
Phase ==
    CASE pc = "first_send" -> "INIT"
      [] pc = "while" /\ Len(calls) = 1 -> "FIRST_MESSAGE_SENT"
      [] pc = "while" /\ Len(calls) # 1 -> "POLLING"
      [] pc \in {"edit", "sleep", "if_done"} -> "POLLING"
      [] pc \in {"loop_exit", "terminal_send", "await_task"} -> "TERMINAL_EDIT"
      [] pc = "idle" /\ outcome.kind = "returned" -> "DONE"
      [] pc = "idle" /\ outcome.kind = "raised" -> "FAILED"
      [] pc = "idle" /\ outcome.kind = "none" -> "NO_RUN"

PhaseEdges ==
    {<<"NO_RUN", "INIT">>, <<"DONE", "INIT">>, <<"FAILED", "INIT">>,
     <<"INIT", "FIRST_MESSAGE_SENT">>, <<"FIRST_MESSAGE_SENT", "POLLING">>,
     <<"POLLING", "TERMINAL_EDIT">>, <<"TERMINAL_EDIT", "DONE">>,
     <<"INIT", "FAILED">>, <<"POLLING", "FAILED">>, <<"TERMINAL_EDIT", "FAILED">>}

WorkRaised == task.state = "done" /\ task.result = "raise"
SomeCallFailed == \E i \in 1..Len(calls) : Failed(calls[i].resp)

\* C12: under weak fairness of the coordinator's steps, a run moves through
\* INIT, FIRST_MESSAGE_SENT, POLLING, TERMINAL_EDIT to DONE, with no other
\* edges than those to FAILED; a run that has ended is in FAILED exactly when a
\* transport call failed or its task had raised when it ended, and in DONE
\* otherwise; and a run whose task is done leaves POLLING and ends.
C12_RunTerminates ==
    /\ [][Phase' # Phase => <<Phase, Phase'>> \in PhaseEdges]_vars
    /\ [](RunEnded =>
            /\ (Phase = "FAILED") <=>
                   (SomeCallFailed \/ (outcome.task_done /\ WorkRaised))
            /\ (Phase = "DONE") <=>
                   (~SomeCallFailed /\ outcome.task_done /\ ~WorkRaised))
    /\ (InRun /\ task.state = "done") ~> RunEnded

\* a run whose task raised after two polling iterations has ended in FAILED
C12_Witness ==
    /\ RunEnded /\ Phase = "FAILED"
    /\ outcome.exc = "WorkError"
    /\ Len(calls) = 4 /\ ~SomeCallFailed

IntermediateEdits == Cardinality({i \in 2..Len(calls) : IsProgress(calls[i])})

\* C13 as stated: a run whose task takes 3 x the switch interval has, once its
\* terminal edit is made, issued 2 to 4 intermediate edits and one terminal
\* edit, and the elapsed time it recorded differs from the wall-clock duration
\* of the run (called at tick 0) by at most one switch interval.
C13_Original_ElapsedWithinOneInterval ==
    pc = "await_task" =>
        /\ IntermediateEdits \in 2..4
        /\ Cardinality(TerminalCalls) = 1
        /\ now - processing_time <= header_switch_speed
        /\ processing_time - now <= header_switch_speed

\* C13 amended: such a run has issued 2 to 4 intermediate edits when its loop
\* exits, then exactly one terminal edit, the last call; the elapsed time it
\* records is the duration of the loop alone: it is at least the duration of
\* the task and at most the wall-clock duration of the run, which it falls
\* short of by the time of the first send and of the terminal edit.
C13_ElapsedIsLoopTime ==
    /\ pc \in {"loop_exit", "terminal_send", "await_task"} =>
          IntermediateEdits \in 2..4
    /\ pc = "await_task" =>
          /\ Cardinality(TerminalCalls) = 1
          /\ IsTerminal(calls[Len(calls)])
          /\ processing_time = loop_ticks
          /\ processing_time >= WorkDuration(header_switch_speed)
          /\ processing_time <= now
          /\ now - processing_time <= 2 * MaxOf(SendTicks)

\* a run made four intermediate edits, and its first send and terminal edit
\* together took longer than one switch interval
C13_Witness ==
    /\ pc = "await_task"
    /\ IntermediateEdits = 4
    /\ now - processing_time > header_switch_speed

\* the task ended within the first slice of time it was given: no call before
\* the terminal edit was made after it had begun
CompletedInFirstSleep ==
    \E i \in TerminalCalls : \A j \in 1..(i - 1) : calls[j].task_state = "scheduled"

ExpectedHeader(a, k) ==
    [kind |-> "progress",
     emoji |-> Some(a.emojis[(k % Len(a.emojis)) + 1]),
     text |-> Some([tag |-> a.task_tag,
                    counter |-> IF a.task_num # None /\ a.task_total # None
                                THEN <<a.task_num[1], a.task_total[1]>>
                                ELSE <<>>]),
     dots |-> IF a.nb_dots = None THEN None ELSE Some((k % a.nb_dots[1]) + 1),
     tenths |-> None,
     wrap |-> "backtick"]

\* C15: for a generator with n >= 1 emojis and nb_dots None or d >= 1, pull
\* number k yields emoji k mod n, the tag with the counter exactly when both
\* numbers are given, (k mod d) + 1 dots or none when nb_dots is None, in
\* backticks; no pull raises or ends the sequence.
C15_HeaderCycles ==
    Len(gen_args.emojis) > 0 =>
        /\ outcome.kind = "none"
        /\ polls > 0 => GenYield(header_generator) = ExpectedHeader(gen_args, polls - 1)
        /\ (polls > 0 /\ bot.current_header.kind = "progress") =>
              bot.current_header = ExpectedHeader(gen_args, polls - 1)

\* the seventh pull of a generator with 2 emojis and 3 dots: both cycles are
\* back at their start together for the first time since the first pull
C15_Witness ==
    /\ polls = 7
    /\ Len(gen_args.emojis) = 2 /\ gen_args.nb_dots = Some(3)
    /\ gen_args.task_num # None /\ gen_args.task_total = None
    /\ bot.current_header.kind = "progress"
    /\ bot.current_header.emoji = Some("e1") /\ bot.current_header.dots = Some(1)

\* C16: the terminal header has a time suffix exactly when the time given is
\* greater than 0; the suffix shows the time rounded to the nearest tenth of a
\* second (12.34 s, 617 ticks, as 12.3); the header is wrapped in backticks as
\* the progress headers are.
C16_DoneHeaderSuffix ==
    bot.current_header.kind = "done" =>
        LET h == bot.current_header
        IN /\ (h.tenths # None) <=> (processing_time > 0)
           /\ h.tenths # None => (2 * processing_time - 10 * h.tenths[1]) \in -4..4
           /\ processing_time = 617 => h.tenths = Some(123)
           /\ h.wrap = "backtick"
           /\ h.wrap = ExpectedHeader(NoArgs, 0).wrap

\* the terminal header of 12.34 s has been rendered
C16_Witness ==
    /\ bot.current_header.kind = "done"
    /\ processing_time = 617
    /\ bot.current_header.tenths = Some(123)

\* C17 as stated: pulling a generator built with no emojis fails with
\* InvalidConfiguration, and no header is yielded.
C17_Original_EmptyEmojisInvalidConfiguration ==
    (Len(gen_args.emojis) = 0 /\ polls > 0) =>
        /\ outcome.kind = "raised" /\ outcome.exc = "InvalidConfiguration"
        /\ bot.current_header.kind # "progress"

\* C18 as stated: a run started with a switch interval of zero or less is
\* rejected: it never reaches the polling loop.
C18_Original_NonPositiveIntervalRejected ==
    (InRun /\ header_switch_speed <= 0) =>
        /\ pc \notin {"while", "edit", "sleep", "if_done"}
        /\ Len(calls) = 0

\* C19: the accumulated processing time never decreases; it changes only in
\* the step of the coordinator that accounts a loop that has exited (line
\* 157): no start of a run, no failure, no step of a task resets or alters it.
C19_ProcessingTimeMonotone ==
    [][/\ processing_time' >= processing_time
       /\ processing_time' # processing_time =>
             (pc = "loop_exit" /\ pc' = "terminal_send")
       /\ (pc = "idle" \/ pc' = "idle") => processing_time' = processing_time]_vars

\* the second run has ended in an error and the total still holds the time of
\* the first run
C19_Witness ==
    /\ runs = 2
    /\ RunEnded /\ outcome.kind = "raised"
    /\ processing_time > 0
    /\ processing_time > loop_ticks

\* C20: the first call of a run carries the first value of a new sequencer
\* (first emoji, one dot, the progress text of this run) and an empty body.
C20_FirstSendFreshAndFlushed ==
    Len(calls) >= 1 =>
        /\ calls[1].payload.text.body = ""
        /\ \E c \in TaskCounters :
              calls[1].payload.text.header =
                  HeaderAt(0, Some(ProgressText(PROGRESS_TEXT_DEFAULT, c[1], c[2])))
        /\ calls[1].payload.text.header.emoji = Some(PROGRESS_EMOJIS[1])
        /\ calls[1].payload.text.header.dots = Some(1)

\* the second run has made its first send after the first run pulled four
\* headers and left its last header staged
C20_Witness ==
    /\ runs = 2
    /\ polls = 3
    /\ Len(calls) = 1
    /\ calls[1].payload.text.body = ""
    /\ bot.current_header.dots = Some(1)

\* a step of a flow other than the coordinator: the unit of work or the second
\* call (the coordinator's position and calls stay, the bot or the task moves)
OtherFlowStep ==
    /\ pc' = pc /\ calls' = calls
    /\ bot' # bot \/ task' # task

\* C21: every call of the coordinator transmits the header the coordinator
\* staged for it (the i-th progress header of its own sequencer, or its
\* terminal header), whatever other flows staged before; the terminal header
\* staged at lines 158-160 is still in place when line 161 sends it; and other
\* flows step only while the coordinator sleeps or has ended: never between a
\* staging and its send, never while a call of the coordinator is in flight.
C21_StageAndSendAtomic ==
    /\ [](\A i \in 1..Len(calls) :
            calls[i].payload.text.header =
                IF IsTerminal(calls[i])
                THEN get_header_done(processing_time)
                ELSE HeaderAt(i - 1, Some(ProgressText(PROGRESS_TEXT_DEFAULT,
                                                       Some(1), Some(2)))))
    /\ [](pc = "terminal_send" => bot.current_header = get_header_done(processing_time))
    /\ [][OtherFlowStep => pc \in {"sleep", "idle"}]_vars

\* the run made its terminal edit after a flow that flushes the body (the
\* second call) had sent on the shared bot between two of its calls
C21_Witness ==
    /\ pc = "await_task"
    /\ id_moved
    /\ \A i \in 1..Len(calls) : calls[i].payload.text.body = ""
    /\ Len(calls) >= 4

\* the accumulated processing time when the run in hand was called: the time
\* of the loops that had exited by then
TotalAtStart ==
    exited_ticks -
        (IF pc \in {"terminal_send", "await_task"} \/ (pc = "idle" /\ TerminalCalls # {})
         THEN loop_ticks ELSE 0)

\* the call that ended the run in an error was its terminal edit
TerminalEditFailed ==
    /\ Len(calls) >= 1
    /\ IsTerminal(calls[Len(calls)])
    /\ Failed(calls[Len(calls)].resp)

\* C22 as stated: a run in which a transport call failed has left the
\* accumulated processing time as it was when the run was called.
C22_Original_FailedRunAddsNothing ==
    (RunEnded /\ SomeCallFailed) => processing_time = TotalAtStart

\* C22 amended: a run whose first send or an intermediate edit failed has left
\* the accumulated processing time as it was when the run was called; a run
\* whose terminal edit failed has added the duration of its loop to it (line
\* 157 runs before the terminal edit of line 161).  TotalAtStart is the total
\* at the call of the run: it is the total when a run starts and stays through
\* the run.
C22_FailedTerminalEditKeepsLoopTime ==
    /\ [][runs' # runs => TotalAtStart' = processing_time]_vars
    /\ [][runs' = runs => TotalAtStart' = TotalAtStart]_vars
    /\ []((RunEnded /\ SomeCallFailed) =>
            processing_time =
                TotalAtStart + (IF TerminalEditFailed THEN loop_ticks ELSE 0))

\* the terminal edit of a second run failed after a loop that took time, on a
\* total that already held the time of the first run
C22_Witness ==
    /\ runs = 2
    /\ RunEnded /\ TerminalEditFailed
    /\ loop_ticks > 0
    /\ TotalAtStart > 0
    /\ processing_time = TotalAtStart + loop_ticks

\* the run in hand has ended in the error of a transport call
RunFailedInTransport == RunEnded /\ SomeCallFailed

\* C23: the step in which a transport call fails ends the run and leaves the
\* task as it is (not cancelled, not awaited); while that task is pending it
\* can still take its steps after the run has ended, to return or to raise;
\* the caller has the error of the transport call and no value, and no later
\* step of the task changes what the caller got.
C23_FailedRunLeavesWorkRunning ==
    /\ [][(pc # "idle" /\ pc' = "idle" /\ SomeCallFailed') => task' = task]_vars
    /\ []((RunFailedInTransport /\ Pending(task)) =>
            \A end \in {"own", "raise"} :
                ENABLED (\E e \in WorkEffects, ts \in MsgIds : WorkRun(e, ts, end)))
    /\ [](RunFailedInTransport =>
            /\ outcome.kind = "raised"
            /\ outcome.exc = SendError(calls[Len(calls)].resp)
            /\ outcome.exc # "WorkError"
            /\ outcome.value = None)
    /\ [][(pc = "idle" /\ pc' = "idle" /\ runs' = runs) => outcome' = outcome]_vars

\* an intermediate edit failed while the task was running; the task raised
\* after the run had ended, and the caller still has the transport error
C23_Witness ==
    /\ RunFailedInTransport
    /\ Len(calls) >= 2
    /\ calls[Len(calls)].task_state = "running"
    /\ ~outcome.task_done
    /\ WorkRaised
    /\ outcome.exc # "WorkError"

====
